---------------------------- MODULE Spec2Model ----------------------------
(***************************************************************************)
(* Model of rust-statusline: src/src/git.rs (porcelain-v2 status parser    *)
(* and its renderers) and src/src/status.rs (path minification and prompt  *)
(* assembly).                                                              *)
(*                                                                         *)
(* A Rust string is a sequence of one-character strings.  The escape byte  *)
(* 0x1b is written "ESC"; the glyphs U+2191, U+2193, U+21AF and U+E0A0 are *)
(* written "UP", "DOWN", "ZAP" and "BRANCHGLYPH".  Inputs are ASCII, so a  *)
(* byte offset is a character offset and no slice splits a character.      *)
(***************************************************************************)
EXTENDS Integers, Sequences, FiniteSets, TLC

VARIABLES pc, args, ret, lines, idx, repo

vars == <<pc, args, ret, lines, idx, repo>>

----------------------------------------------------------------------------
(* Bounds *)

MaxCount == 11
MaxRepoCount == 2
MaxLines == 3
MaxNameLen == 4
MaxPathLen == 5
MaxKeep == 3
MaxVcsLen == 4

----------------------------------------------------------------------------
(* Literals of git.rs *)

RESET == <<"ESC", "[", "m">>
GREEN == <<"ESC", "[", "3", "2", "m">>
RED == <<"ESC", "[", "3", "1", "m">>
BRIGHTRED == <<"ESC", "[", "9", "1", ";", "1", "m">>
GREY == <<"ESC", "[", "9", "0", "m">>
BLUE == <<"ESC", "[", "9", "4", "m">>
ICON == <<"ESC", "[", "3", "8", ";", "5", ";", "2", "0", "2", "m", "BRANCHGLYPH">> \o RESET
NOUPSTREAM == BRIGHTRED \o <<"ZAP">> \o RESET

DigitChars == <<"0", "1", "2", "3", "4", "5", "6", "7", "8", "9">>

IsDigit(c) == \E d \in 1..10 : DigitChars[d] = c

DigitVal(c) == (CHOOSE d \in 1..10 : DigitChars[d] = c) - 1

(* format!("{}", n) for a usize: the decimal digits, no padding *)
RECURSIVE FmtUsize(_)
FmtUsize(n) ==
    IF n < 10 THEN <<DigitChars[n + 1]>>
    ELSE FmtUsize(n \div 10) \o <<DigitChars[(n % 10) + 1]>>

RECURSIVE DigitsVal(_, _)
DigitsVal(s, acc) ==
    IF s = <<>> THEN acc ELSE DigitsVal(Tail(s), acc * 10 + DigitVal(Head(s)))

(* str::parse::<usize>(): an optional leading '+', then one or more decimal *)
(* digits; anything else is Err                                             *)
ParseUsize(s) ==
    LET body == IF s /= <<>> /\ Head(s) = "+" THEN Tail(s) ELSE s
    IN  IF body /= <<>> /\ \A k \in 1..Len(body) : IsDigit(body[k])
        THEN [ok |-> TRUE, val |-> DigitsVal(body, 0)]
        ELSE [ok |-> FALSE, val |-> 0]

(* str::split(sep): the pieces between occurrences of the one-character    *)
(* separator; always at least one piece, empty pieces are kept             *)
RECURSIVE SplitAcc(_, _, _, _)
SplitAcc(s, sep, cur, acc) ==
    IF s = <<>> THEN Append(acc, cur)
    ELSE IF Head(s) = sep THEN SplitAcc(Tail(s), sep, <<>>, Append(acc, cur))
    ELSE SplitAcc(Tail(s), sep, Append(cur, Head(s)), acc)

Split(s, sep) == SplitAcc(s, sep, <<>>, <<>>)

(* [String]::join(sep) *)
RECURSIVE Join(_, _)
Join(parts, sep) ==
    IF parts = <<>> THEN <<>>
    ELSE IF Len(parts) = 1 THEN parts[1]
    ELSE parts[1] \o <<sep>> \o Join(Tail(parts), sep)

----------------------------------------------------------------------------
(* git.rs: AheadBehind, Status and their Display implementations *)

AheadBehind(a, b) == [ahead |-> a, behind |-> b]

Status(um, st, un, ut) == [unmerged |-> um, staged |-> st, unstaged |-> un, untracked |-> ut]

StatusZero == Status(0, 0, 0, 0)

HasChanges(s) == s.unstaged > 0 \/ s.untracked > 0 \/ s.staged > 0 \/ s.unmerged > 0

AheadBehindFmt_ResetEach(ab) ==
    (IF ab.ahead > 0 THEN GREEN \o <<"UP">> \o FmtUsize(ab.ahead) \o RESET ELSE <<>>)
    \o (IF ab.behind > 0 THEN RED \o <<"DOWN">> \o FmtUsize(ab.behind) \o RESET ELSE <<>>)

AheadBehindFmt(ab) ==
    LET ahead == ab.ahead > 0
        behind == ab.behind > 0
    IN  IF ~(ahead \/ behind) THEN <<>>
        ELSE (IF ahead THEN GREEN \o <<"UP">> \o FmtUsize(ab.ahead) ELSE <<>>)
             \o (IF behind THEN RED \o <<"DOWN">> \o FmtUsize(ab.behind) ELSE <<>>)
             \o RESET

StatusFmt(s) ==
    IF ~HasChanges(s) THEN <<>>
    ELSE (IF s.unmerged > 0 THEN BRIGHTRED \o FmtUsize(s.unmerged) ELSE <<>>)
         \o (IF s.staged > 0 THEN GREEN \o FmtUsize(s.staged) ELSE <<>>)
         \o (IF s.unstaged > 0 THEN RED \o FmtUsize(s.unstaged) ELSE <<>>)
         \o (IF s.untracked > 0 THEN GREY \o FmtUsize(s.untracked) ELSE <<>>)
         \o RESET

(* Option<AheadBehind> *)
None == [some |-> FALSE, ahead |-> 0, behind |-> 0]

Some(a, b) == [some |-> TRUE, ahead |-> a, behind |-> b]

Repo(b, ab, s, n) == [branch |-> b, ab |-> ab, status |-> s, stashes |-> n]

Stat_AlwaysWrap(r) ==
    ICON \o r.branch
    \o (IF r.ab.some THEN AheadBehindFmt(r.ab) ELSE NOUPSTREAM)
    \o (<<"(">> \o StatusFmt(r.status) \o <<")">>)
    \o (<<"{">> \o FmtUsize(r.stashes) \o <<"}">>)

(* <Repo as VCS>::stat *)
Stat(r) ==
    ICON \o r.branch
    \o (IF r.ab.some THEN AheadBehindFmt(r.ab) ELSE NOUPSTREAM)
    \o (IF HasChanges(r.status) THEN <<"(">> \o StatusFmt(r.status) \o <<")">> ELSE <<>>)
    \o (IF r.stashes > 0 THEN <<"{">> \o FmtUsize(r.stashes) \o <<"}">> ELSE <<>>)

----------------------------------------------------------------------------
(* git.rs: Repo::from_str, one record of the report at a time *)

KeyBranchHead == <<"b", "r", "a", "n", "c", "h", ".", "h", "e", "a", "d">>

KeyBranchAb == <<"b", "r", "a", "n", "c", "h", ".", "a", "b">>

KeyStash == <<"s", "t", "a", "s", "h">>

(* Outcome of handling one line: the updated summary, or a panic *)
Continue(r) == [panic |-> FALSE, repo |-> r]

Panic(r) == [panic |-> TRUE, repo |-> r]

(* the "#" arm: line[2..] split on " ", first field is the key *)
HeaderRecord(r, line) ==
    IF Len(line) < 2 THEN Panic(r)
    ELSE LET fields == Split(SubSeq(line, 3, Len(line)), " ")
             key == fields[1]
         IN  IF key = KeyBranchHead THEN
                 IF Len(fields) >= 2
                 THEN Continue([r EXCEPT !.branch = r.branch \o fields[2]])
                 ELSE Continue(r)
             ELSE IF key = KeyBranchAb THEN
                 IF Len(fields) >= 3
                 THEN LET ahead == ParseUsize(fields[2])
                          behind == IF fields[3] = <<>>
                                    THEN [ok |-> FALSE, val |-> 0]
                                    ELSE ParseUsize(Tail(fields[3]))
                      IN  IF ahead.ok /\ behind.ok
                          THEN Continue([r EXCEPT !.ab = Some(ahead.val, behind.val)])
                          ELSE Panic(r)
                 ELSE Continue(r)
             ELSE IF key = KeyStash THEN
                 IF Len(fields) >= 2
                 THEN LET value == ParseUsize(fields[2])
                      IN  IF value.ok
                          THEN Continue([r EXCEPT !.stashes = value.val])
                          ELSE Panic(r)
                 ELSE Continue(r)
             ELSE Continue(r)

ChangeRecord_SwappedOffsets(r, line) ==
    IF Len(line) < 4 THEN Panic(r)
    ELSE LET s1 == IF line[4] /= "."
                   THEN [r.status EXCEPT !.staged = @ + 1] ELSE r.status
             s2 == IF line[3] /= "."
                   THEN [s1 EXCEPT !.unstaged = @ + 1] ELSE s1
         IN  Continue([r EXCEPT !.status = s2])

(* the "1" | "2" arm: line[2..3] is the index code, line[3..4] the worktree *)
(* code; either slice panics when the line is too short                     *)
ChangeRecord(r, line) ==
    IF Len(line) < 4 THEN Panic(r)
    ELSE LET s1 == IF line[3] /= "."
                   THEN [r.status EXCEPT !.staged = @ + 1] ELSE r.status
             s2 == IF line[4] /= "."
                   THEN [s1 EXCEPT !.unstaged = @ + 1] ELSE s1
         IN  Continue([r EXCEPT !.status = s2])

(* body of the for loop over string.split("\n") *)
ParseRecord(r, line) ==
    IF line = <<>> THEN Continue(r)
    ELSE LET tag == line[1]
         IN  IF tag = "#" THEN HeaderRecord(r, line)
             ELSE IF tag = "u"
                 THEN Continue([r EXCEPT !.status.unmerged = @ + 1])
             ELSE IF tag \in {"1", "2"} THEN ChangeRecord(r, line)
             ELSE IF tag = "?"
                 THEN Continue([r EXCEPT !.status.untracked = @ + 1])
             ELSE Continue(r)

EmptyRepo == Repo(<<>>, None, StatusZero, 0)

----------------------------------------------------------------------------
(* status.rs: minify_dir, minify_path, apply_vcs, statusline *)

Letters ==
    { "a", "b", "c", "d", "e", "f", "g", "h", "i", "j", "k", "l", "m",
      "n", "o", "p", "q", "r", "s", "t", "u", "v", "w", "x", "y", "z",
      "A", "B", "C", "D", "E", "F", "G", "H", "I", "J", "K", "L", "M",
      "N", "O", "P", "Q", "R", "S", "T", "U", "V", "W", "X", "Y", "Z" }

IsWord_NoUnderscore(c) == c \in Letters \/ IsDigit(c)

(* the regex class \w: letters, digits and the underscore; \W is the rest *)
IsWord(c) == c \in Letters \/ IsDigit(c) \/ c = "_"

(* lengths k of a run \W{k} at s that is followed by one \w *)
MatchLens(name, s) ==
    { k \in 0..(Len(name) - s) :
        /\ \A j \in s..(s + k - 1) : ~IsWord(name[j])
        /\ IsWord(name[s + k]) }

Max(S) == CHOOSE x \in S : \A y \in S : y <= x

Min(S) == CHOOSE x \in S : \A y \in S : x <= y

Range(f) == { f[k] : k \in DOMAIN f }

(* Regex::new(r"(\W*\w)").find(name): the leftmost start with a match, and *)
(* the greedy (longest) run of \W there                                     *)
RegexFind(name) ==
    LET starts == { s \in 1..Len(name) : MatchLens(name, s) /= {} }
    IN  IF starts = {} THEN [found |-> FALSE, start |-> 0, end |-> 0]
        ELSE LET s == Min(starts)
             IN  [found |-> TRUE, start |-> s, end |-> s + Max(MatchLens(name, s))]

MinifyDir(name) ==
    LET mat == RegexFind(name)
    IN  IF mat.found THEN SubSeq(name, mat.start, mat.end) ELSE name

Ok(v) == [ok |-> TRUE, val |-> v]

Panicked == [ok |-> FALSE, val |-> <<>>]

MinifyPath_InclusiveLimit(path, keep, overflowChecks) ==
    LET dirs == Split(path, "/")
        n == Len(dirs)
    IN  IF keep > n /\ overflowChecks THEN Panicked
        ELSE LET result == [i \in 1..n |->
                     IF keep > n \/ i - 1 <= n - keep
                     THEN MinifyDir(dirs[i]) ELSE dirs[i]]
             IN  Ok(BLUE \o Join(result, "/") \o RESET)

(* limit = dirs.len() - keep is a usize subtraction: with keep > dirs.len() *)
(* it panics when the build checks overflow and otherwise wraps to          *)
(* 2^64 - (keep - dirs.len()), which exceeds every index                    *)
MinifyPath(path, keep, overflowChecks) ==
    LET dirs == Split(path, "/")
        n == Len(dirs)
    IN  IF keep > n /\ overflowChecks THEN Panicked
        ELSE LET result == [i \in 1..n |->
                     IF keep > n \/ i - 1 < n - keep
                     THEN MinifyDir(dirs[i]) ELSE dirs[i]]
             IN  Ok(BLUE \o Join(result, "/") \o RESET)

(* &path[0..root.len()] panics when root is longer than path; nothing else *)
(* about root is examined.  keep is 1 and split yields at least one piece, *)
(* so the subtraction in minify_path cannot overflow here                   *)
ApplyVcs(path, root, stat) ==
    IF Len(root) > Len(path) THEN Panicked
    ELSE LET common == SubSeq(path, 1, Len(root))
             remainder == SubSeq(path, Len(root) + 1, Len(path))
         IN  Ok(MinifyPath(common, 1, TRUE).val \o stat
                \o MinifyPath(remainder, 1, TRUE).val)

(* env::current_dir() outcomes: Err, a path that is not UTF-8, a UTF-8 path *)
CwdErr == [kind |-> "err", path |-> <<>>]

CwdNotUtf8 == [kind |-> "not_utf8", path |-> <<>>]

CwdOk(p) == [kind |-> "ok", path |-> p]

Statusline(cwd, root, stat) ==
    IF cwd.kind = "err" THEN Panicked
    ELSE IF cwd.kind = "ok" THEN ApplyVcs(cwd.path, root, stat)
    ELSE Ok(<<>>)

----------------------------------------------------------------------------
(* Inputs *)

SeqsUpTo(S, n) == UNION { [1..k -> S] : k \in 0..n }

WellFormedLines ==
    { <<"#", " ", "b", "r", "a", "n", "c", "h", ".", "h", "e", "a", "d", " ", "m">>,
      <<"#", " ", "b", "r", "a", "n", "c", "h", ".", "h", "e", "a", "d", " ", "d", "e", "v">>,
      <<"#", " ", "b", "r", "a", "n", "c", "h", ".", "a", "b", " ", "+", "1", " ", "-", "1", "0">>,
      <<"#", " ", "b", "r", "a", "n", "c", "h", ".", "a", "b", " ", "+", "0", " ", "-", "0">>,
      <<"#", " ", "s", "t", "a", "s", "h", " ", "3">>,
      <<"#", " ", "s", "t", "a", "s", "h", " ", "1", "2">>,
      <<"#", " ", "b", "r", "a", "n", "c", "h", ".", "o", "i", "d", " ", "a", "b", "c">>,
      <<"1", " ", ".", "M", " ", "f">>,
      <<"1", " ", "M", ".", " ", "f">>,
      <<"2", " ", "R", "M", " ", "f", " ", "g">>,
      <<"u", " ", "U", "U", " ", "f">>,
      <<"?", " ", "f">>,
      <<>>,
      <<"!", " ", "f">> }

MalformedLines ==
    { <<"#">>,
      <<"#", " ", "s", "t", "a", "s", "h", " ", "x">>,
      <<"1", " ", "M">>,
      <<"#", " ", "b", "r", "a", "n", "c", "h", ".", "h", "e", "a", "d">>,
      <<"#", " ", "b", "r", "a", "n", "c", "h", ".", "a", "b", " ", "+", "1">> }

ReportLines == WellFormedLines \cup MalformedLines

Counts == 0..MaxCount

RepoCounts == 0..MaxRepoCount

Branches == { <<>>, <<"m">>, <<"(", "d", "e", "t", ")">> }

NameChars == { "a", "b", ".", "_", "~" }

PathChars == { "/", "a", ".", "_" }

VcsChars == { "/", "a", "." }

StatStrings == { <<"BRANCHGLYPH">>, ICON \o <<"m">> }

----------------------------------------------------------------------------
(* State machine *)

NoArgs == [op |-> "none"]

Init ==
    /\ pc = "idle"
    /\ args = NoArgs
    /\ ret = Ok(<<>>)
    /\ lines = <<>>
    /\ idx = 0
    /\ repo = EmptyRepo

(* Repo::from_str entered with a report: locals initialised, split on "\n" *)
FromStr ==
    /\ pc = "idle"
    /\ \E ls \in SeqsUpTo(ReportLines, MaxLines) :
         LET string == Join(ls, "LF")
         IN  /\ args' = [op |-> "from_str", string |-> string]
             /\ lines' = Split(string, "LF")
    /\ idx' = 1
    /\ repo' = EmptyRepo
    /\ pc' = "parse"
    /\ UNCHANGED ret

(* one iteration of the for loop *)
ParseLine ==
    /\ pc = "parse"
    /\ idx <= Len(lines)
    /\ LET out == ParseRecord(repo, lines[idx])
       IN  IF out.panic
           THEN /\ pc' = "panic"
                /\ ret' = Panicked
                /\ UNCHANGED <<repo, idx>>
           ELSE /\ repo' = out.repo
                /\ idx' = idx + 1
                /\ UNCHANGED <<pc, ret>>
    /\ UNCHANGED <<args, lines>>

(* return Ok(Repo{branch, ab, status, stashes}) *)
FromStrReturn ==
    /\ pc = "parse"
    /\ idx > Len(lines)
    /\ pc' = "parsed"
    /\ UNCHANGED <<args, ret, lines, idx, repo>>

TestAbFmt ==
    /\ pc = "idle"
    /\ \E a \in Counts, b \in Counts :
         /\ args' = [op |-> "ab_fmt", ab |-> AheadBehind(a, b)]
         /\ ret' = Ok(AheadBehindFmt(AheadBehind(a, b)))
    /\ pc' = "done"
    /\ UNCHANGED <<lines, idx, repo>>

TestStatusFmt ==
    /\ pc = "idle"
    /\ \E um \in Counts, st \in Counts, un \in Counts, ut \in Counts :
         /\ args' = [op |-> "status_fmt", status |-> Status(um, st, un, ut)]
         /\ ret' = Ok(StatusFmt(Status(um, st, un, ut)))
    /\ pc' = "done"
    /\ UNCHANGED <<lines, idx, repo>>

TestRepoStat ==
    /\ pc = "idle"
    /\ \E b \in Branches,
          ab \in {None} \cup { Some(x, y) : x \in RepoCounts, y \in RepoCounts },
          um \in RepoCounts, st \in RepoCounts, un \in RepoCounts, ut \in RepoCounts,
          n \in RepoCounts :
         /\ args' = [op |-> "stat", repo |-> Repo(b, ab, Status(um, st, un, ut), n)]
         /\ ret' = Ok(Stat(Repo(b, ab, Status(um, st, un, ut), n)))
    /\ pc' = "done"
    /\ UNCHANGED <<lines, idx, repo>>

TestMinifyDir ==
    /\ pc = "idle"
    /\ \E name \in SeqsUpTo(NameChars, MaxNameLen) :
         /\ args' = [op |-> "minify_dir", name |-> name]
         /\ ret' = Ok(MinifyDir(name))
    /\ pc' = "done"
    /\ UNCHANGED <<lines, idx, repo>>

TestMinifyPath ==
    /\ pc = "idle"
    /\ \E path \in SeqsUpTo(PathChars, MaxPathLen), keep \in 0..MaxKeep,
          overflowChecks \in BOOLEAN :
         /\ args' = [op |-> "minify_path", path |-> path, keep |-> keep,
                     overflowChecks |-> overflowChecks]
         /\ ret' = MinifyPath(path, keep, overflowChecks)
    /\ pc' = "done"
    /\ UNCHANGED <<lines, idx, repo>>

TestApplyVcs ==
    /\ pc = "idle"
    /\ \E path \in SeqsUpTo(VcsChars, MaxVcsLen),
          root \in SeqsUpTo(VcsChars, MaxVcsLen), stat \in StatStrings :
         /\ args' = [op |-> "apply_vcs", path |-> path, root |-> root, stat |-> stat]
         /\ ret' = ApplyVcs(path, root, stat)
    /\ pc' = "done"
    /\ UNCHANGED <<lines, idx, repo>>

CallStatusline ==
    /\ pc = "idle"
    /\ \E cwd \in {CwdErr, CwdNotUtf8}
                    \cup { CwdOk(p) : p \in SeqsUpTo(VcsChars, MaxVcsLen) },
          root \in SeqsUpTo(VcsChars, MaxVcsLen), stat \in StatStrings :
         /\ args' = [op |-> "statusline", cwd |-> cwd, root |-> root, stat |-> stat]
         /\ ret' = Statusline(cwd, root, stat)
    /\ pc' = "done"
    /\ UNCHANGED <<lines, idx, repo>>

NextParse == FromStr \/ ParseLine \/ FromStrReturn

NextFmt == TestAbFmt \/ TestStatusFmt \/ TestRepoStat

NextPath == TestMinifyDir \/ TestMinifyPath

NextVcs == TestApplyVcs \/ CallStatusline

Next ==
    \/ FromStr \/ ParseLine \/ FromStrReturn
    \/ TestAbFmt \/ TestStatusFmt \/ TestRepoStat
    \/ TestMinifyDir \/ TestMinifyPath
    \/ TestApplyVcs \/ CallStatusline

Spec == Init /\ [][Next]_vars

SpecParse == Init /\ [][NextParse]_vars

SpecFmt == Init /\ [][NextFmt]_vars

SpecPath == Init /\ [][NextPath]_vars

SpecVcs == Init /\ [][NextVcs]_vars

----------------------------------------------------------------------------
(* Vocabulary of the properties *)

IsPrefix(p, s) == Len(p) <= Len(s) /\ SubSeq(s, 1, Len(p)) = p

IsSuffix(p, s) == Len(p) <= Len(s) /\ SubSeq(s, Len(s) - Len(p) + 1, Len(s)) = p

Occurrences(sub, s) ==
    { k \in 1..(Len(s) - Len(sub) + 1) : SubSeq(s, k, k + Len(sub) - 1) = sub }

Contains(sub, s) == Occurrences(sub, s) /= {}

Called(op) == pc = "done" /\ args.op = op

Fields(line) == Split(SubSeq(line, 3, Len(line)), " ")

IsHeader(line, key, n) ==
    /\ Len(line) >= 2
    /\ line[1] = "#"
    /\ Fields(line)[1] = key
    /\ Len(Fields(line)) >= n

IsChange(line) == Len(line) >= 4 /\ line[1] \in {"1", "2"}

HasTag(line, t) == line /= <<>> /\ line[1] = t

Count(ls, P(_)) == Cardinality({ k \in 1..Len(ls) : P(ls[k]) })

IsUnmergedLine(line) == HasTag(line, "u")

IsUntrackedLine(line) == HasTag(line, "?")

IsStagedLine(line) == IsChange(line) /\ line[3] /= "."

IsUnstagedLine(line) == IsChange(line) /\ line[4] /= "."

Last(S) == CHOOSE x \in S : \A y \in S : y <= x

First(S) == CHOOSE x \in S : \A y \in S : x <= y

----------------------------------------------------------------------------
(* C1: Repo::from_str never panics, whatever the report, and a malformed or *)
(* unexpected line leaves the summary as if the line were absent: no run    *)
(* reaches the panic state, and a returned summary equals the summary of    *)
(* the report without its unrecognised lines.                               *)

Recognised(line) ==
    \/ HasTag(line, "u")
    \/ HasTag(line, "?")
    \/ IsChange(line)
    \/ IsHeader(line, KeyBranchHead, 2)
    \/ /\ IsHeader(line, KeyBranchAb, 3)
       /\ ParseUsize(Fields(line)[2]).ok
       /\ Fields(line)[3] /= <<>>
       /\ ParseUsize(Tail(Fields(line)[3])).ok
    \/ IsHeader(line, KeyStash, 2) /\ ParseUsize(Fields(line)[2]).ok

RECURSIVE SummaryOf(_, _)
SummaryOf(r, ls) ==
    IF ls = <<>> THEN r ELSE SummaryOf(ParseRecord(r, Head(ls)).repo, Tail(ls))

C1_FromStrNeverFails ==
    /\ pc /= "panic"
    /\ pc = "parsed" => repo = SummaryOf(EmptyRepo, SelectSeq(lines, Recognised))

----------------------------------------------------------------------------
(* C2: when Repo::from_str returns, unmerged is the number of "u" lines,    *)
(* untracked the number of "?" lines, staged the number of "1"/"2" lines    *)
(* whose character at offset 2 is not ".", and unstaged the number of       *)
(* "1"/"2" lines whose character at offset 3 is not "."; other lines add    *)
(* to none of the four counts.                                              *)

C2_StatusCounts ==
    pc = "parsed" =>
        repo.status = Status(Count(lines, IsUnmergedLine), Count(lines, IsStagedLine),
                             Count(lines, IsUnstagedLine), Count(lines, IsUntrackedLine))

C2_Witness ==
    /\ pc = "parsed"
    /\ \E k \in 1..Len(lines) : IsStagedLine(lines[k]) /\ IsUnstagedLine(lines[k])
    /\ \E k \in 1..Len(lines) : IsStagedLine(lines[k]) /\ ~IsUnstagedLine(lines[k])
    /\ \E k \in 1..Len(lines) : IsUnmergedLine(lines[k])
    /\ repo.status = Status(1, 2, 1, 0)

----------------------------------------------------------------------------
(* C3: when Repo::from_str returns, branch is the name of the last          *)
(* "branch.head" header ("" when there is none), ahead_behind is the pair   *)
(* of the last "branch.ab" header (absent when there is none) and the stash *)
(* count is the number of the last "stash" header (0 when there is none).   *)

HeadLines(ls) == { k \in 1..Len(ls) : IsHeader(ls[k], KeyBranchHead, 2) }

AbLines(ls) == { k \in 1..Len(ls) : IsHeader(ls[k], KeyBranchAb, 3) }

StashLines(ls) == { k \in 1..Len(ls) : IsHeader(ls[k], KeyStash, 2) }

LastBranch(ls) ==
    IF HeadLines(ls) = {} THEN <<>> ELSE Fields(ls[Last(HeadLines(ls))])[2]

LastAb(ls) ==
    IF AbLines(ls) = {} THEN None
    ELSE LET f == Fields(ls[Last(AbLines(ls))])
         IN  Some(ParseUsize(f[2]).val, ParseUsize(Tail(f[3])).val)

LastStash(ls) ==
    IF StashLines(ls) = {} THEN 0
    ELSE ParseUsize(Fields(ls[Last(StashLines(ls))])[2]).val

C3_LastHeaderWins ==
    pc = "parsed" =>
        /\ repo.branch = LastBranch(lines)
        /\ repo.ab = LastAb(lines)
        /\ repo.stashes = LastStash(lines)

----------------------------------------------------------------------------
(* C4: apply_vcs panics, and returns no prompt, whenever the root is longer *)
(* than the path or is not a prefix of the path that ends on a separator    *)
(* boundary.                                                                *)

RootOnBoundary(root, path) ==
    /\ IsPrefix(root, path)
    /\ Len(root) = Len(path) \/ path[Len(root) + 1] = "/"

C4_ApplyVcsRejectsForeignRoot ==
    (Called("apply_vcs") /\ ~RootOnBoundary(args.root, args.path)) => ~ret.ok

----------------------------------------------------------------------------
(* C5: with keep at least the number of segments, minify_path neither       *)
(* panics nor overflows and returns the path with no segment abbreviated.   *)

C5_KeepCoversAllSegments ==
    (Called("minify_path") /\ args.keep >= Len(Split(args.path, "/"))) =>
        ret = Ok(BLUE \o args.path \o RESET)

----------------------------------------------------------------------------
(* C6: statusline returns the empty string, without panicking, whenever     *)
(* the current directory cannot be determined or is not valid UTF-8.        *)

C6_StatuslineDegradesToEmpty ==
    (Called("statusline") /\ args.cwd.kind \in {"err", "not_utf8"}) => ret = Ok(<<>>)

----------------------------------------------------------------------------
(* C7: for a path of N segments and 0 <= keep <= N, the text minify_path    *)
(* puts between the path colour and the reset has exactly N segments, in    *)
(* order: each of the first N - keep is minify_dir of the original segment  *)
(* and each of the last keep is the original segment.                       *)

PathText(v) == SubSeq(v, Len(BLUE) + 1, Len(v) - Len(RESET))

C7_MinifyPathSegments ==
    (Called("minify_path") /\ args.keep <= Len(Split(args.path, "/"))) =>
        LET dirs == Split(args.path, "/")
            n == Len(dirs)
            out == Split(PathText(ret.val), "/")
        IN  /\ ret.ok
            /\ IsPrefix(BLUE, ret.val)
            /\ IsSuffix(RESET, ret.val)
            /\ Len(ret.val) >= Len(BLUE) + Len(RESET)
            /\ Len(out) = n
            /\ \A i \in 1..n :
                 out[i] = IF i <= n - args.keep THEN MinifyDir(dirs[i]) ELSE dirs[i]

C7_Witness ==
    /\ Called("minify_path")
    /\ args.path = <<"a", ".", "/", "_", "a">>
    /\ args.keep = 1
    /\ ret = Ok(BLUE \o <<"a", "/", "_", "a">> \o RESET)

----------------------------------------------------------------------------
(* C8: minify_dir returns the segment up to and including its first word    *)
(* character (alphanumeric or underscore), so the match starts at the first *)
(* character; a segment without a word character is returned unchanged.     *)

WordCharacter(c) == c \in Letters \/ c \in Range(DigitChars) \/ c = "_"

C8_MinifyDirPrefix ==
    Called("minify_dir") =>
        LET name == args.name
            w == { k \in 1..Len(name) : WordCharacter(name[k]) }
        IN  /\ ret.ok
            /\ IsPrefix(ret.val, name)
            /\ ret.val = IF w = {} THEN name ELSE SubSeq(name, 1, First(w))

C8_Witness ==
    /\ Called("minify_dir")
    /\ args.name = <<".", "_", "a", "b">>
    /\ ret = Ok(<<".", "_">>)

----------------------------------------------------------------------------
(* C9: Repo::stat is the icon, the branch, the ahead/behind rendering (the  *)
(* no-upstream glyph when absent, nothing when {0,0}), the status rendering *)
(* in parentheses iff some status count is nonzero, and the stash count in  *)
(* braces iff it is positive; the output holds no "()" and no "{0}".        *)

C9_StatComposition ==
    Called("stat") =>
        LET r == args.repo
            s == r.status
            abPart == IF ~r.ab.some THEN NOUPSTREAM
                      ELSE IF r.ab.ahead = 0 /\ r.ab.behind = 0 THEN <<>>
                      ELSE AheadBehindFmt(r.ab)
            statusPart == IF s.unmerged + s.staged + s.unstaged + s.untracked = 0
                          THEN <<>>
                          ELSE <<"(">> \o StatusFmt(s) \o <<")">>
            stashPart == IF r.stashes = 0 THEN <<>>
                         ELSE <<"{">> \o FmtUsize(r.stashes) \o <<"}">>
        IN  /\ ret = Ok(ICON \o r.branch \o abPart \o statusPart \o stashPart)
            /\ ~Contains(<<"(", ")">>, ret.val)
            /\ ~Contains(<<"{", "0", "}">>, ret.val)

C9_Witness ==
    /\ Called("stat")
    /\ args.repo = Repo(<<"m">>, Some(1, 2), Status(1, 0, 2, 0), 2)
    /\ IsSuffix(<<")", "{", "2", "}">>, ret.val)

----------------------------------------------------------------------------
(* C10: an AheadBehind or Status renders as the empty string when all its   *)
(* counts are zero; otherwise as its nonzero counts only, in the order      *)
(* ahead, behind (colour code, arrow, count), respectively unmerged,        *)
(* staged, unstaged, untracked (colour code, count), followed by the reset  *)
(* code, which occurs exactly once and ends the string.                     *)

Shown(code, n) == [code |-> code, n |-> n]

AbShown(ab) ==
    << Shown(GREEN \o <<"UP">>, ab.ahead), Shown(RED \o <<"DOWN">>, ab.behind) >>

StatusShown(s) ==
    << Shown(BRIGHTRED, s.unmerged), Shown(GREEN, s.staged),
       Shown(RED, s.unstaged), Shown(GREY, s.untracked) >>

RECURSIVE NonzeroInOrder(_)
NonzeroInOrder(fs) ==
    IF fs = <<>> THEN <<>>
    ELSE (IF Head(fs).n > 0 THEN Head(fs).code \o FmtUsize(Head(fs).n) ELSE <<>>)
         \o NonzeroInOrder(Tail(fs))

Rendering(fs, out) ==
    IF \A k \in 1..Len(fs) : fs[k].n = 0 THEN out = <<>>
    ELSE /\ out = NonzeroInOrder(fs) \o RESET
         /\ Occurrences(RESET, out) = { Len(out) - Len(RESET) + 1 }

C10_RenderNonzeroThenReset ==
    /\ Called("ab_fmt") => ret.ok /\ Rendering(AbShown(args.ab), ret.val)
    /\ Called("status_fmt") => ret.ok /\ Rendering(StatusShown(args.status), ret.val)

C10_Witness ==
    /\ Called("status_fmt")
    /\ args.status = Status(0, 10, 0, 3)
    /\ ret = Ok(GREEN \o <<"1", "0">> \o GREY \o <<"3">> \o RESET)

============================================================================
